---- MODULE Spec2Model ----
(***************************************************************************)
(* Model of the web server of area-calculator-v2 (Server/src/webserver):   *)
(* the WebServer struct with add_route/start/stop, the accept loop that    *)
(* start() spawns on a background thread, handle_connection, the request   *)
(* parser Request::new and the response serializer Response::to_string;    *)
(* and of its geometry library (Server/src/geometry): Line and             *)
(* AngularShape.                                                           *)
(*                                                                         *)
(* Text is modelled as a sequence of characters, every character being a   *)
(* one-letter TLA+ string; the two fixed HTML pages are single atoms.      *)
(***************************************************************************)
EXTENDS Naturals, Integers, Sequences, FiniteSets, TLC

\* ------------------------------------------------------------------------
\* Bounds of the model.
\* ------------------------------------------------------------------------
MaxStarts == 2   \* successful binds of the listening socket
MaxConns == 2    \* client connections made to one listening socket

\* The caller stops registering once the registry holds this many routes.
MaxRoutes == 2

\* A shape has at most this many corners.
MaxCorners == 4

\* ------------------------------------------------------------------------
\* Text helpers.
\* ------------------------------------------------------------------------
CRLF == <<"\r", "\n">>

IsWhite(c) == c \in {" ", "\t"}

RECURSIVE SplitWs(_, _, _)
\* str::split_whitespace: the maximal runs of non-whitespace characters.
\* s: rest of the line, cur: the run being read, acc: the runs read so far.
SplitWs(s, cur, acc) ==
  IF s = <<>>
  THEN IF cur = <<>> THEN acc ELSE Append(acc, cur)
  ELSE IF IsWhite(Head(s))
       THEN SplitWs(Tail(s), <<>>, IF cur = <<>> THEN acc ELSE Append(acc, cur))
       ELSE SplitWs(Tail(s), Append(cur, Head(s)), acc)

split_whitespace(s) == SplitWs(s, <<>>, <<>>)

RECURSIVE SplitOn(_, _, _, _)
\* str::split(sep) for a one-character separator: every piece between two
\* separators is kept, the empty ones too, so there is always one piece.
SplitOn(s, sep, cur, acc) ==
  IF s = <<>>
  THEN Append(acc, cur)
  ELSE IF Head(s) = sep
       THEN SplitOn(Tail(s), sep, <<>>, Append(acc, cur))
       ELSE SplitOn(Tail(s), sep, Append(cur, Head(s)), acc)

split(s, sep) == SplitOn(s, sep, <<>>, <<>>)

\* str::contains for a one-character pattern.
contains(s, c) == \E i \in 1..Len(s) : s[i] = c

RECURSIVE Join(_, _)
\* [String]::join(sep)
Join(parts, sep) ==
  IF parts = <<>> THEN <<>>
  ELSE IF Len(parts) = 1 THEN parts[1]
  ELSE parts[1] \o sep \o Join(Tail(parts), sep)

\* ------------------------------------------------------------------------
\* http_method.rs, http_status.rs
\* ------------------------------------------------------------------------
HttpMethod == {"GET", "POST", "PUT", "DELETE", "Unknown"}

GET_ == <<"G", "E", "T">>
POST_ == <<"P", "O", "S", "T">>
PUT_ == <<"P", "U", "T">>
DELETE_ == <<"D", "E", "L", "E", "T", "E">>

\* impl FromStr for HttpMethod: Ok(method) for the four names, Err(()) else.
from_str(s) ==
  IF s = GET_ THEN [ok |-> TRUE, method |-> "GET"]
  ELSE IF s = POST_ THEN [ok |-> TRUE, method |-> "POST"]
  ELSE IF s = PUT_ THEN [ok |-> TRUE, method |-> "PUT"]
  ELSE IF s = DELETE_ THEN [ok |-> TRUE, method |-> "DELETE"]
  ELSE [ok |-> FALSE, method |-> "Unknown"]

HttpStatus == {"Ok", "NotFound", "InternalServerError"}

\* impl Display for HttpStatus
StatusText(st) ==
  IF st = "Ok" THEN <<"2", "0", "0", " ", "O", "K">>
  ELSE IF st = "NotFound"
       THEN <<"4", "0", "4", " ", "N", "o", "t", " ", "F", "o", "u", "n", "d">>
       ELSE <<"5", "0", "0", " ", "I", "n", "t", "e", "r", "n", "a", "l", " ",
              "S", "e", "r", "v", "e", "r", " ", "E", "r", "r", "o", "r">>

\* ------------------------------------------------------------------------
\* response.rs
\* ------------------------------------------------------------------------
\* Response::new
Response(status, body, headers) ==
  [status |-> status, headers |-> headers, body |-> body]

HeaderLine(h) == h[1] \o <<":", " ">> \o h[2]

\* Response::to_string: status line, CRLF, the header lines joined by CRLF,
\* then CRLF CRLF and the body.
to_string(r) ==
  LET status_line == <<"H", "T", "T", "P", "/", "1", ".", "1", " ">>
                       \o StatusText(r.status)
      headers == Join([i \in 1..Len(r.headers) |-> HeaderLine(r.headers[i])], CRLF)
  IN status_line \o CRLF \o headers \o CRLF \o CRLF \o r.body

ContentTypeHtml ==
  << <<"C", "o", "n", "t", "e", "n", "t", "-", "T", "y", "p", "e">>,
     <<"t", "e", "x", "t", "/", "h", "t", "m", "l", ";", " ",
       "c", "h", "a", "r", "s", "e", "t", "=", "u", "t", "f", "-", "8">> >>

\* The two literal HTML documents of handle_connection, one atom each.
Page404 == <<"<404 Not Found page>">>
Page500 == <<"<500 Internal Server Error page>">>

\* NotFoundResponse with the header's charset left out.
NotFoundResponse_NoCharset ==
  Response("NotFound", Page404,
           << <<ContentTypeHtml[1], <<"t", "e", "x", "t", "/", "h", "t", "m", "l">> >> >>)

NotFoundResponse == Response("NotFound", Page404, <<ContentTypeHtml>>)
InternalErrorResponse == Response("InternalServerError", Page500, <<ContentTypeHtml>>)

\* ------------------------------------------------------------------------
\* request.rs
\* ------------------------------------------------------------------------
NoRequest == [method |-> "Unknown", path |-> <<>>, headers |-> <<>>, body |-> <<>>]

\* Request::new with each header line split once, at its first ':', the
\* value being all that follows it.
RequestNew_SplitOnce(raw_request) ==
  IF Len(raw_request) = 0
  THEN [panic |-> TRUE, request |-> NoRequest]
  ELSE
    LET first_line == split_whitespace(raw_request[1])
    IN IF Len(first_line) < 2
       THEN [panic |-> TRUE, request |-> NoRequest]
       ELSE
         LET http_method == from_str(first_line[1])
             parts == [i \in 1..(Len(raw_request) - 1) |-> split(raw_request[i + 1], ":")]
         IN IF ~http_method.ok
            THEN [panic |-> TRUE, request |-> NoRequest]
            ELSE IF \E i \in 1..Len(parts) : Len(parts[i]) < 2
            THEN [panic |-> TRUE, request |-> NoRequest]
            ELSE [panic |-> FALSE,
                  request |-> [method |-> http_method.method,
                               path |-> first_line[2],
                               headers |-> [i \in 1..Len(parts) |->
                                              <<parts[i][1], Join(Tail(parts[i]), <<":">>)>>],
                               body |-> <<>>]]

\* Request::new.  Every index past the end of a vector and every unwrap of
\* an Err is a panic of the calling thread: raw_request[0] on no lines,
\* first_line[0] / first_line[1] on fewer than two tokens, the unwrap of
\* HttpMethod::from_str on another method name, header_parts[1] on a header
\* line without ':'.
RequestNew(raw_request) ==
  IF Len(raw_request) = 0
  THEN [panic |-> TRUE, request |-> NoRequest]
  ELSE
    LET first_line == split_whitespace(raw_request[1])
    IN IF Len(first_line) < 2
       THEN [panic |-> TRUE, request |-> NoRequest]
       ELSE
         LET http_method == from_str(first_line[1])
             parts == [i \in 1..(Len(raw_request) - 1) |-> split(raw_request[i + 1], ":")]
         IN IF ~http_method.ok
            THEN [panic |-> TRUE, request |-> NoRequest]
            ELSE IF \E i \in 1..Len(parts) : Len(parts[i]) < 2
            THEN [panic |-> TRUE, request |-> NoRequest]
            ELSE [panic |-> FALSE,
                  request |-> [method |-> http_method.method,
                               path |-> first_line[2],
                               headers |-> [i \in 1..Len(parts) |-> <<parts[i][1], parts[i][2]>>],
                               body |-> <<>>]]

\* ------------------------------------------------------------------------
\* routehandler.rs
\* ------------------------------------------------------------------------
\* RouteHandler::new: the path pattern is the path.
RouteHandlerNew(method, path, handler) ==
  [method |-> method, path |-> path, path_pattern |-> path, handler |-> handler]

\* handles_path with the path compared after a trailing slash is dropped
\* and letters are folded to lower case.
handles_path_Normalized(route, method, path) ==
  LET lower(c) == IF c = "P" THEN "p" ELSE IF c = "X" THEN "x" ELSE c
      fold(p) == LET q == IF Len(p) > 1 /\ p[Len(p)] = "/" THEN SubSeq(p, 1, Len(p) - 1) ELSE p
                 IN [k \in 1..Len(q) |-> lower(q[k])]
  IN IF route.method # method THEN FALSE ELSE fold(route.path) = fold(path)

\* RouteHandler::handles_path
handles_path(route, method, path) ==
  IF route.method # method THEN FALSE ELSE route.path = path

\* The handler functions (Arc<dyn HandlerFn>) routes are registered with in
\* this model: one returning Response{Ok, [], "hello"}, one that answers
\* with the path of the request it was given, and three that panic, with a
\* &str payload, a String payload and a payload of another type.
Handlers == {"hello", "echo", "boom", "boomString", "boomOther"}

Hello == <<"h", "e", "l", "l", "o">>
ContentTypePlain ==
  << <<"C", "o", "n", "t", "e", "n", "t", "-", "T", "y", "p", "e">>,
     <<"t", "e", "x", "t", "/", "p", "l", "a", "i", "n">> >>

\* The payload a panicking handler unwinds with: its type and its text.
PanicPayload(h) ==
  IF h = "boom" THEN [type |-> "&str", text |-> <<"b", "o", "o", "m">>]
  ELSE IF h = "boomString" THEN [type |-> "String", text |-> <<"B", "O", "O", "M">>]
  ELSE [type |-> "other", text |-> <<>>]

\* The debug line handle_connection logs for a caught panic: the payload's
\* text when it downcasts to &str or to String, a fixed text otherwise.
PanicLog(payload) ==
  IF payload.type \in {"&str", "String"}
  THEN <<"Handler panicked: ">> \o payload.text
  ELSE <<"Handler panicked with unknown cause.">>

\* (handler)(request): the Response returned, or a panic.
HandlerCall(h, req) ==
  IF h = "hello" THEN [panic |-> FALSE, response |-> Response("Ok", Hello, <<>>)]
  ELSE IF h = "echo"
       THEN [panic |-> FALSE,
             response |-> Response("Ok", req.path, <<ContentTypePlain>>)]
       ELSE [panic |-> TRUE, response |-> Response("Ok", <<>>, <<>>)]


\* ------------------------------------------------------------------------
\* The routes callers register and the requests clients send.
\* ------------------------------------------------------------------------
Root == <<"/">>
PathP == <<"/", "p">>
PathX == <<"/", "x">>
PathId == <<"/", "{", "i", "}">>

\* Routes built with RouteHandler::new, and two built as struct literals
\* (the fields of RouteHandler are public), whose pattern is not their path.
Routes ==
  { RouteHandlerNew("GET", Root, "hello"),
    RouteHandlerNew("GET", Root, "echo"),
    RouteHandlerNew("GET", Root, "boomString"),
    RouteHandlerNew("GET", PathP, "boom"),
    RouteHandlerNew("Unknown", PathX, "hello"),
    RouteHandlerNew("GET", <<>>, "hello"),
    RouteHandlerNew("GET", PathId, "hello"),
    [method |-> "GET", path |-> PathId, path_pattern |-> PathX, handler |-> "boomOther"],
    [method |-> "GET", path |-> PathX, path_pattern |-> PathId, handler |-> "hello"] }

GetRoot == GET_ \o <<" ">> \o Root
GetP == GET_ \o <<" ">> \o PathP \o <<" ", "H">>
GetId == GET_ \o <<" ">> \o PathId
OneToken == GET_
HostHeader == <<"H", ":", " ", "a">>
BadHeader == <<"H">>

\* What a client sends, as BufReader::lines delivers it up to the first empty
\* line.
Inputs ==
  { <<GetRoot>>,
    <<GetP, HostHeader>>,
    <<GetId>>,
    <<>>,
    <<OneToken>>,
    <<GetRoot, BadHeader>> }

\* ------------------------------------------------------------------------
\* State.
\* ------------------------------------------------------------------------
VARIABLES
  routes,           \* WebServer.routes
  is_running,       \* WebServer.is_running
  should_stop,      \* WebServer.should_stop, the shared AtomicBool (a load
                    \* returns the last value stored)
  local_addr,       \* WebServer.local_addr: "None" or "Some"
  listener_handle,  \* WebServer.listener_handle: "None" or "Some"
  listener,         \* WebServer.listener: "None" or "Some"
  c_pc,             \* where the caller of add_route/start/stop is
  ret,              \* the caller's last call and how it went (for an
                    \* add_route that returned false, the error it logged)
  starts,           \* sockets bound so far
  l_fn,             \* the library function a test driver called last
  l_arg,            \* the argument it passed
  l_res,            \* what the call returned
  t_pc,             \* where the background thread is
  t_routes,         \* the thread's clone of the routes
  cur,              \* the connection the thread holds (0: none)
  request,          \* handle_connection's request
  response,         \* handle_connection's response
  sock,             \* the listening socket the thread owns: "open"/"closed"
  backlog,          \* connections waiting to be accepted on that socket
  conns             \* the connections made to the listening socket bound
                    \* last, as their clients see them

vars == <<routes, is_running, should_stop, local_addr, listener_handle, listener,
          c_pc, ret, starts, l_fn, l_arg, l_res, t_pc, t_routes, cur, request,
          response, sock, backlog, conns>>

server == <<routes, is_running, should_stop, local_addr, listener_handle, listener>>
thread == <<t_pc, t_routes, cur, request, response, sock, backlog, conns>>
lib == <<l_fn, l_arg, l_res>>

NoResponse == Response("Ok", <<>>, <<>>)

\* WebServer::new
Init ==
  /\ routes = <<>>
  /\ is_running = FALSE
  /\ should_stop = FALSE
  /\ local_addr = "None"
  /\ listener_handle = "None"
  /\ listener = "None"
  /\ c_pc = "idle"
  /\ ret = "new"
  /\ starts = 0
  /\ l_fn = "none"
  /\ l_arg = <<>>
  /\ l_res = <<>>
  /\ t_pc = "none"
  /\ t_routes = <<>>
  /\ cur = 0
  /\ request = NoRequest
  /\ response = NoResponse
  /\ sock = "closed"
  /\ backlog = <<>>
  /\ conns = <<>>

\* ------------------------------------------------------------------------
\* WebServer::add_route
\* ------------------------------------------------------------------------
unsupported_wildcards ==
  {"{", "}", "*", "?", "+", "|", "^", "$", ".", "\\", "#", "&", "="}

\* AddRouteAccepts without the check of is_running.
AddRouteAccepts_WhileRunning(handler) ==
  /\ ~\E i \in 1..Len(routes) :
        routes[i].path = handler.path /\ routes[i].method = handler.method
  /\ handler.path # <<>>
  /\ handler.method # "Unknown"
  /\ ~\E w \in unsupported_wildcards : contains(handler.path_pattern, w)

\* AddRouteAccepts without the search for a registered route with the same
\* method and path.
AddRouteAccepts_NoDuplicateCheck(handler) ==
  /\ ~is_running
  /\ handler.path # <<>>
  /\ handler.method # "Unknown"
  /\ ~\E w \in unsupported_wildcards : contains(handler.path_pattern, w)

\* The value add_route returns for this handler in this state.
AddRouteAccepts(handler) ==
  /\ ~is_running
  /\ ~\E i \in 1..Len(routes) :
        routes[i].path = handler.path /\ routes[i].method = handler.method
  /\ handler.path # <<>>
  /\ handler.method # "Unknown"
  /\ ~\E w \in unsupported_wildcards : contains(handler.path_pattern, w)

\* Which of its errors add_route logs before it returns false: the checks
\* are made in this order and the first that fails returns.
AddRouteError(handler) ==
  IF is_running THEN "running"
  ELSE IF \E i \in 1..Len(routes) :
            routes[i].path = handler.path /\ routes[i].method = handler.method
       THEN "registered"
  ELSE IF handler.path = <<>> THEN "empty"
  ELSE IF handler.method = "Unknown" THEN "unknown"
  ELSE "wildcard"

\* The values of ret after an add_route that returned false.
AddRouteFalse ==
  {"add_route:false:running", "add_route:false:registered", "add_route:false:empty",
   "add_route:false:unknown", "add_route:false:wildcard"}

add_route(handler) ==
  /\ c_pc = "idle"
  /\ AddRouteAccepts(handler) => Len(routes) < MaxRoutes
  /\ IF AddRouteAccepts(handler)
     THEN /\ routes' = Append(routes, handler)
          /\ ret' = "add_route:true"
     ELSE /\ routes' = routes
          /\ ret' = IF AddRouteError(handler) = "running" THEN "add_route:false:running"
                    ELSE IF AddRouteError(handler) = "registered"
                         THEN "add_route:false:registered"
                    ELSE IF AddRouteError(handler) = "empty" THEN "add_route:false:empty"
                    ELSE IF AddRouteError(handler) = "unknown"
                         THEN "add_route:false:unknown"
                    ELSE "add_route:false:wildcard"
  /\ UNCHANGED <<is_running, should_stop, local_addr, listener_handle, listener,
                 c_pc, starts, lib>>
  /\ UNCHANGED thread


\* ------------------------------------------------------------------------
\* WebServer::start
\* ------------------------------------------------------------------------
\* start() without the is_running check: the address is bound a second time,
\* which fails, and the unwrap panics.
StartNoop_BindsAgain ==
  /\ c_pc = "idle"
  /\ is_running
  /\ c_pc' = "panicked"
  /\ ret' = "start:panic"
  /\ UNCHANGED <<server, starts, lib>>
  /\ UNCHANGED thread

\* start() on a running server: logged, nothing else.
StartNoop ==
  /\ c_pc = "idle"
  /\ is_running
  /\ ret' = "start:noop"
  /\ UNCHANGED <<server, c_pc, starts, lib>>
  /\ UNCHANGED thread

\* StartBindFails with is_running set before the bind.
StartBindFails_MarksRunning ==
  /\ c_pc = "idle"
  /\ ~is_running
  /\ is_running' = TRUE
  /\ c_pc' = "panicked"
  /\ ret' = "start:panic"
  /\ UNCHANGED <<routes, should_stop, local_addr, listener_handle, listener,
                 starts, lib>>
  /\ UNCHANGED thread

\* TcpListener::bind fails: the unwrap panics in the caller before any field
\* of the server is assigned.
StartBindFails ==
  /\ c_pc = "idle"
  /\ ~is_running
  /\ c_pc' = "panicked"
  /\ ret' = "start:panic"
  /\ UNCHANGED <<server, starts, lib>>
  /\ UNCHANGED thread

\* The results of TcpListener::local_addr (TRUE: Ok) on the listener that
\* bind has just returned: reading the address of a bound socket succeeds.
LocalAddrResults == {TRUE}

\* StartBinds without should_stop.store(false).
StartBinds_StaleFlag(addr_ok) ==
  /\ c_pc = "idle"
  /\ ~is_running
  /\ starts < MaxStarts
  /\ starts' = starts + 1
  /\ listener' = "None"
  /\ local_addr' = IF addr_ok THEN "Some" ELSE local_addr
  /\ is_running' = TRUE
  /\ listener_handle' = "Some"
  /\ t_routes' = routes
  /\ t_pc' = "spawned"
  /\ sock' = "open"
  /\ backlog' = <<>>
  /\ conns' = <<>>
  /\ ret' = "start"
  /\ UNCHANGED <<routes, should_stop, c_pc, lib, cur, request, response>>

\* StartBinds with the thread given an empty route list instead of the
\* clone of self.routes.
StartBinds_NoSnapshot(addr_ok) ==
  /\ c_pc = "idle"
  /\ ~is_running
  /\ starts < MaxStarts
  /\ starts' = starts + 1
  /\ listener' = "None"
  /\ local_addr' = IF addr_ok THEN "Some" ELSE local_addr
  /\ is_running' = TRUE
  /\ should_stop' = FALSE
  /\ listener_handle' = "Some"
  /\ t_routes' = <<>>
  /\ t_pc' = "spawned"
  /\ sock' = "open"
  /\ backlog' = <<>>
  /\ conns' = <<>>
  /\ ret' = "start"
  /\ UNCHANGED <<routes, c_pc, lib, cur, request, response>>

\* start() with a successful bind.  addr_ok: whether listener.local_addr()
\* returned Ok; on Err the error is logged and local_addr keeps its value.
\* The listener is stored in self.listener and taken out again for the
\* thread, the routes are cloned and the thread is spawned.
StartBinds(addr_ok) ==
  /\ c_pc = "idle"
  /\ ~is_running
  /\ starts < MaxStarts
  /\ starts' = starts + 1
  /\ listener' = "None"
  /\ local_addr' = IF addr_ok THEN "Some" ELSE local_addr
  /\ is_running' = TRUE
  /\ should_stop' = FALSE
  /\ listener_handle' = "Some"
  /\ t_routes' = routes
  /\ t_pc' = "spawned"
  /\ sock' = "open"
  /\ backlog' = <<>>
  /\ conns' = <<>>
  /\ ret' = "start"
  /\ UNCHANGED <<routes, c_pc, lib, cur, request, response>>

start == StartNoop \/ StartBindFails \/ (\E addr_ok \in LocalAddrResults : StartBinds(addr_ok))

\* ------------------------------------------------------------------------
\* WebServer::stop
\* ------------------------------------------------------------------------
\* The three early returns of stop().
StopNoop ==
  /\ c_pc = "idle"
  /\ \/ ~is_running
     \/ listener_handle = "None"
     \/ local_addr = "None"
  /\ ret' = "stop:noop"
  /\ UNCHANGED <<server, c_pc, starts, lib>>
  /\ UNCHANGED thread

\* StopSetFlag without the store: stop() goes on to connect with the flag
\* as it was.
StopSetFlag_NoStore ==
  /\ c_pc = "idle"
  /\ is_running
  /\ listener_handle # "None"
  /\ local_addr # "None"
  /\ c_pc' = "stop_connect"
  /\ ret' = "stop:called"
  /\ UNCHANGED <<routes, is_running, should_stop, local_addr, listener_handle,
                 listener, starts, lib>>
  /\ UNCHANGED thread

\* should_stop.store(true)
StopSetFlag ==
  /\ c_pc = "idle"
  /\ is_running
  /\ listener_handle # "None"
  /\ local_addr # "None"
  /\ should_stop' = TRUE
  /\ c_pc' = "stop_connect"
  /\ ret' = "stop:called"
  /\ UNCHANGED <<routes, is_running, local_addr, listener_handle, listener, starts, lib>>
  /\ UNCHANGED thread

\* A connection as made, waiting in the backlog.  input: <<>> until the
\* server has read the connection, then <<the lines it read>>; logged: the
\* line logged for the panic of its handler; invoked: the handler run
\* for it; fault: whether that handler panicked; bytes: what was written to
\* it; stop_seen: the stop flag when accept returned it; stop_late: the stop
\* flag when its response was written.
NewConn(kind) ==
  [kind |-> kind, input |-> <<>>, st |-> "queued", invoked |-> "none",
   fault |-> FALSE, logged |-> <<>>, bytes |-> <<>>, stop_seen |-> FALSE,
   stop_late |-> FALSE]

\* The connection stop() makes to the server's own address and drops at
\* once: a reader of it meets the end of the stream, no line.
SelfConn == NewConn("self")

\* StopConnect without the connection.
StopConnect_NoDial ==
  /\ c_pc = "stop_connect"
  /\ c_pc' = "stop_join"
  /\ UNCHANGED <<server, ret, starts, lib>>
  /\ UNCHANGED thread

\* let _ = TcpStream::connect(local_addr): it reaches the backlog of the
\* listening socket when that socket is open, and fails (ignored) otherwise.
StopConnect ==
  /\ c_pc = "stop_connect"
  /\ c_pc' = "stop_join"
  /\ IF sock = "open"
     THEN /\ conns' = Append(conns, SelfConn)
          /\ backlog' = Append(backlog, Len(conns) + 1)
     ELSE UNCHANGED <<conns, backlog>>
  /\ UNCHANGED <<server, ret, starts, lib, t_pc, t_routes, cur, request, response, sock>>

\* StopJoin without the join: the handle is taken and dropped, which
\* detaches the thread.
StopJoin_NoWait ==
  /\ c_pc = "stop_join"
  /\ listener_handle' = "None"
  /\ is_running' = FALSE
  /\ c_pc' = "idle"
  /\ ret' = "stop"
  /\ UNCHANGED <<routes, should_stop, local_addr, listener, starts, lib>>
  /\ UNCHANGED thread

\* StopJoin with the result of the join unwrapped: the Err that the join of
\* a panicked thread returns panics the caller.
StopJoin_Unwrap ==
  /\ c_pc = "stop_join"
  /\ t_pc \in {"exited", "dead"}
  /\ listener_handle' = "None"
  /\ t_pc' = "none"
  /\ IF t_pc = "dead"
     THEN /\ c_pc' = "panicked"
          /\ ret' = "stop:panic"
          /\ UNCHANGED is_running
     ELSE /\ is_running' = FALSE
          /\ c_pc' = "idle"
          /\ ret' = "stop"
  /\ UNCHANGED <<routes, should_stop, local_addr, listener, starts, lib>>
  /\ UNCHANGED <<t_routes, cur, request, response, sock, backlog, conns>>

\* listener_handle.take(), handle.join() once the thread has ended (normally
\* or by a panic, join's Err being ignored), then is_running = false.
StopJoin ==
  /\ c_pc = "stop_join"
  /\ t_pc \in {"exited", "dead"}
  /\ listener_handle' = "None"
  /\ t_pc' = "none"
  /\ is_running' = FALSE
  /\ c_pc' = "idle"
  /\ ret' = "stop"
  /\ UNCHANGED <<routes, should_stop, local_addr, listener, starts, lib>>
  /\ UNCHANGED <<t_routes, cur, request, response, sock, backlog, conns>>

stop == StopNoop \/ StopSetFlag \/ StopConnect \/ StopJoin


\* ------------------------------------------------------------------------
\* Clients.
\* ------------------------------------------------------------------------
NumClients == Cardinality({i \in 1..Len(conns) : conns[i].kind = "client"})

\* A client connects to the listening socket.
ClientConnect ==
  /\ sock = "open"
  /\ NumClients < MaxConns
  /\ conns' = Append(conns, NewConn("client"))
  /\ backlog' = Append(backlog, Len(conns) + 1)
  /\ UNCHANGED <<server, c_pc, ret, starts, lib, t_pc, t_routes, cur, request, response, sock>>

\* ------------------------------------------------------------------------
\* The thread spawned by start(): the accept loop and handle_connection.
\* ------------------------------------------------------------------------
\* The connections after the thread has let go of its stream (cur, when it
\* holds one) and of the listening socket: each is closed, and one that has
\* not been written its response never gets it.
Closed(cs, held) ==
  [i \in 1..Len(cs) |->
     IF cs[i].st \in {"queued", "accepted"} /\ (i = held \/ cs[i].st = "queued")
     THEN [cs[i] EXCEPT !.st = "dropped"]
     ELSE cs[i]]

\* The thread ends, its closure returning (how = "exited") or panicking and
\* unwinding (how = "dead"): the stream it holds, the listener and the clone
\* of the routes are dropped.  cs: the connections at that moment.
ThreadEnds(how, cs) ==
  /\ t_pc' = how
  /\ sock' = "closed"
  /\ conns' = Closed(cs, cur)
  /\ backlog' = <<>>
  /\ cur' = 0
  /\ request' = NoRequest
  /\ response' = NoResponse
  /\ t_routes' = <<>>

ThreadExits == ThreadEnds("exited", conns)

ThreadPanics == ThreadEnds("dead", conns)

\* info!("Listening ... {}", listener.local_addr().unwrap()): the thread
\* panics when local_addr() returns Err here.
ThreadListening(addr_ok) ==
  /\ t_pc = "spawned"
  /\ IF addr_ok
     THEN /\ t_pc' = "accept"
          /\ UNCHANGED <<t_routes, cur, request, response, sock, backlog, conns>>
     ELSE ThreadPanics
  /\ UNCHANGED <<server, c_pc, ret, starts, lib>>

\* ThreadAccept with handle_connection run on a thread of its own: the next
\* connection is accepted while one is being handled.
ThreadAccept_Concurrent ==
  /\ t_pc \in {"accept", "read", "dispatch", "write"}
  /\ backlog # <<>>
  /\ cur' = Head(backlog)
  /\ backlog' = Tail(backlog)
  /\ conns' = [conns EXCEPT ![Head(backlog)].st = "accepted",
                            ![Head(backlog)].stop_seen = should_stop]
  /\ t_pc' = "check"
  /\ UNCHANGED <<server, c_pc, ret, starts, lib, t_routes, request, response, sock>>

\* listener.incoming() yields Ok(stream): the oldest waiting connection.
ThreadAccept ==
  /\ t_pc = "accept"
  /\ backlog # <<>>
  /\ cur' = Head(backlog)
  /\ backlog' = Tail(backlog)
  /\ conns' = [conns EXCEPT ![Head(backlog)].st = "accepted",
                            ![Head(backlog)].stop_seen = should_stop]
  /\ t_pc' = "check"
  /\ UNCHANGED <<server, c_pc, ret, starts, lib, t_routes, request, response, sock>>

\* listener.incoming() yields Err(e).
ThreadAcceptErr ==
  /\ t_pc = "accept"
  /\ cur' = 0
  /\ t_pc' = "check"
  /\ UNCHANGED <<server, c_pc, ret, starts, lib, t_routes, request, response, sock,
                 backlog, conns>>

\* ThreadCheck with the stop flag loaded only when there is no stream to
\* handle.
ThreadCheck_HandleFirst ==
  /\ t_pc = "check"
  /\ IF should_stop /\ cur = 0
     THEN ThreadExits
     ELSE /\ t_pc' = IF cur # 0 THEN "read" ELSE "accept"
          /\ UNCHANGED <<t_routes, cur, request, response, sock, backlog, conns>>
  /\ UNCHANGED <<server, c_pc, ret, starts, lib>>

\* The body of the loop up to the call of handle_connection: the stop flag
\* is loaded; set, the loop breaks; clear, Ok(stream) is handled and Err(e)
\* is logged.
ThreadCheck ==
  /\ t_pc = "check"
  /\ IF should_stop
     THEN ThreadExits
     ELSE /\ t_pc' = IF cur # 0 THEN "read" ELSE "accept"
          /\ UNCHANGED <<t_routes, cur, request, response, sock, backlog, conns>>
  /\ UNCHANGED <<server, c_pc, ret, starts, lib>>

\* handle_connection, lines 210-221: the lines the peer sent are read up to
\* the first empty line and Request::new parses them, which may panic.  The
\* peer of the connection stop() makes has closed it: no line.
ThreadRead(input) ==
  /\ t_pc = "read"
  /\ conns[cur].kind = "self" => input = <<>>
  /\ LET parsed == RequestNew(input)
     IN IF parsed.panic
        THEN ThreadEnds("dead", [conns EXCEPT ![cur].input = <<input>>])
        ELSE /\ request' = parsed.request
             /\ t_pc' = "dispatch"
             /\ conns' = [conns EXCEPT ![cur].input = <<input>>]
             /\ UNCHANGED <<t_routes, cur, response, sock, backlog>>
  /\ UNCHANGED <<server, c_pc, ret, starts, lib>>

\* handle_connection, line 213: a read of the stream returns Err (the bytes
\* are not UTF-8, the peer reset the connection) and its unwrap panics.
ThreadReadFails ==
  /\ t_pc = "read"
  /\ conns[cur].kind = "client"
  /\ ThreadPanics
  /\ UNCHANGED <<server, c_pc, ret, starts, lib>>

\* routes.iter().find(|route| route.handles_path(method, path)): the index
\* of the first such route, 0 when there is none.
FindRoute(rs, method, path) ==
  LET hits == {i \in 1..Len(rs) : handles_path(rs[i], method, path)}
  IN IF hits = {} THEN 0 ELSE CHOOSE i \in hits : \A j \in hits : i <= j

\* ThreadDispatch without catch_unwind: the panic of the handler unwinds the
\* thread.
ThreadDispatch_NoCatch ==
  /\ t_pc = "dispatch"
  /\ LET r == FindRoute(t_routes, request.method, request.path)
     IN IF r = 0
        THEN /\ response' = NotFoundResponse
             /\ t_pc' = "write"
             /\ UNCHANGED <<conns, t_routes, cur, request, sock, backlog>>
        ELSE LET result == HandlerCall(t_routes[r].handler, request)
                 cs == [conns EXCEPT ![cur].invoked = t_routes[r].handler,
                                     ![cur].fault = result.panic,
                                     ![cur].logged =
                                        IF result.panic
                                        THEN PanicLog(PanicPayload(t_routes[r].handler))
                                        ELSE <<>>]
             IN IF result.panic
                THEN ThreadEnds("dead", cs)
                ELSE /\ response' = result.response
                     /\ conns' = cs
                     /\ t_pc' = "write"
                     /\ UNCHANGED <<t_routes, cur, request, sock, backlog>>
  /\ UNCHANGED <<server, c_pc, ret, starts, lib>>

\* ThreadDispatch with the text of the panic's payload put at the end of
\* the 500 page.
ThreadDispatch_LeaksPayload ==
  /\ t_pc = "dispatch"
  /\ LET r == FindRoute(t_routes, request.method, request.path)
     IN IF r = 0
        THEN /\ response' = NotFoundResponse
             /\ UNCHANGED conns
        ELSE LET result == HandlerCall(t_routes[r].handler, request)
                 payload == PanicPayload(t_routes[r].handler)
             IN /\ response' = IF result.panic
                                THEN Response("InternalServerError",
                                              Page500 \o payload.text, <<ContentTypeHtml>>)
                                ELSE result.response
                /\ conns' = [conns EXCEPT ![cur].invoked = t_routes[r].handler,
                                          ![cur].fault = result.panic,
                                          ![cur].logged =
                                             IF result.panic THEN PanicLog(payload)
                                             ELSE <<>>]
  /\ t_pc' = "write"
  /\ UNCHANGED <<t_routes, cur, request, sock, backlog>>
  /\ UNCHANGED <<server, c_pc, ret, starts, lib>>

\* handle_connection, lines 224-308: no route, the 404 response; a route,
\* its handler called under catch_unwind, a panic giving the 500 response.
ThreadDispatch ==
  /\ t_pc = "dispatch"
  /\ LET r == FindRoute(t_routes, request.method, request.path)
     IN IF r = 0
        THEN /\ response' = NotFoundResponse
             /\ UNCHANGED conns
        ELSE LET result == HandlerCall(t_routes[r].handler, request)
             IN /\ response' = IF result.panic THEN InternalErrorResponse
                                ELSE result.response
                /\ conns' = [conns EXCEPT ![cur].invoked = t_routes[r].handler,
                                          ![cur].fault = result.panic,
                                          ![cur].logged =
                                             IF result.panic
                                             THEN PanicLog(PanicPayload(t_routes[r].handler))
                                             ELSE <<>>]
  /\ t_pc' = "write"
  /\ UNCHANGED <<t_routes, cur, request, sock, backlog>>
  /\ UNCHANGED <<server, c_pc, ret, starts, lib>>

\* ThreadWrite with a Content-Type header added to a response that has no
\* header.
ThreadWrite_DefaultHeader ==
  /\ t_pc = "write"
  /\ conns' = [conns EXCEPT ![cur].bytes =
                              to_string(IF response.headers = <<>>
                                        THEN [response EXCEPT !.headers = <<ContentTypeHtml>>]
                                        ELSE response),
                            ![cur].st = "responded",
                            ![cur].stop_late = should_stop]
  /\ cur' = 0
  /\ request' = NoRequest
  /\ response' = NoResponse
  /\ t_pc' = "accept"
  /\ UNCHANGED <<t_routes, sock, backlog>>
  /\ UNCHANGED <<server, c_pc, ret, starts, lib>>

\* stream.write_all(response.to_string().as_bytes()) returns Ok: the client
\* has the bytes, handle_connection returns and drops the stream.
ThreadWrite ==
  /\ t_pc = "write"
  /\ conns' = [conns EXCEPT ![cur].bytes = to_string(response),
                            ![cur].st = "responded",
                            ![cur].stop_late = should_stop]
  /\ cur' = 0
  /\ request' = NoRequest
  /\ response' = NoResponse
  /\ t_pc' = "accept"
  /\ UNCHANGED <<t_routes, sock, backlog>>
  /\ UNCHANGED <<server, c_pc, ret, starts, lib>>

\* write_all returns Err (the client has closed the connection): the unwrap
\* panics.
ThreadWriteFails ==
  /\ t_pc = "write"
  /\ ThreadPanics
  /\ UNCHANGED <<server, c_pc, ret, starts, lib>>

handle_connection ==
  \/ \E input \in Inputs : ThreadRead(input)
  \/ ThreadReadFails
  \/ ThreadDispatch \/ ThreadWrite \/ ThreadWriteFails

accept_loop ==
  \/ \E addr_ok \in LocalAddrResults : ThreadListening(addr_ok)
  \/ ThreadAccept
  \/ ThreadAcceptErr
  \/ ThreadCheck

Next ==
  \/ \E handler \in Routes : add_route(handler)
  \/ start
  \/ stop
  \/ ClientConnect
  \/ accept_loop
  \/ handle_connection

Spec == Init /\ [][Next]_vars

\* The scheduler runs the spawned thread and the caller inside stop(): a
\* step either of them can take is eventually taken, a read of an accepted
\* connection ending with the peer's empty line or its end of stream.  No
\* client has to connect and accept does not have to yield an error.
Fairness ==
  /\ WF_vars(StopConnect)
  /\ WF_vars(StopJoin)
  /\ WF_vars(\E addr_ok \in LocalAddrResults : ThreadListening(addr_ok))
  /\ WF_vars(ThreadAccept)
  /\ WF_vars(ThreadCheck)
  /\ WF_vars(handle_connection)

FairSpec == Spec /\ Fairness


\* ------------------------------------------------------------------------
\* geometry/point.rs, geometry/line.rs
\* ------------------------------------------------------------------------
\* An f64 coordinate is a whole number of units of 2^-30.  The corners of the
\* shapes lie on a grid of Fine units (2^-20, a little under 0.000001), so
\* that sums, differences and products of corner coordinates are exact in
\* f64 and here alike; the end points of a shortened line are rounded to
\* the unit.
Fine == 1024

\* 0.000001, the length is_valid takes off each end of a line: 1073.74 units.
Epsilon == 1074

\* Point { x, y } at the grid position (x, y).
Point(x, y) == [x |-> x * Fine, y |-> y * Fine]

Line(from, to) == [start |-> from, end |-> to]

\* The quotient n / d (d > 0) rounded to the nearest whole number.
Round(n, d) == (2 * n + d) \div (2 * d)

RECURSIVE sqrt(_)
\* f64::sqrt, rounded down to the unit.
sqrt(k) ==
  IF k < 2 THEN k
  ELSE LET r == 2 * sqrt(k \div 4)
       IN IF (r + 1) * (r + 1) <= k THEN r + 1 ELSE r

max(a, b) == IF a >= b THEN a ELSE b
min(a, b) == IF a <= b THEN a ELSE b

\* Line::length
length(line) ==
  LET dx == line.start.x - line.end.x
      dy == line.start.y - line.end.y
  IN sqrt(dx * dx + dy * dy)

\* Line::flip
flip(line) == Line(line.end, line.start)

\* Line::shorten: Err(LineTooShortForShortening) on a line shorter than
\* delta_l, else the line with its end moved delta_l towards its start.
shorten(line, delta_l) ==
  IF length(line) < delta_l
  THEN [ok |-> FALSE, line |-> line]
  ELSE
    LET x1 == line.start.x
        x2 == line.end.x
        y1 == line.start.y
        y2 == line.end.y
        den == sqrt(x2 * x2 - 2 * x2 * x1 + x1 * x1 + y2 * y2 - 2 * y2 * y1 + y1 * y1)
    IN [ok |-> TRUE,
        line |-> Line(line.start,
                      [x |-> x2 - Round(delta_l * (x2 - x1), den),
                       y |-> y2 - Round(delta_l * (y2 - y1), den)])]

\* Line::orientation: 0 collinear, 1 clockwise, 2 counterclockwise.
orientation(p, q, r) ==
  LET val == (q.y - p.y) * (r.x - q.x) - (q.x - p.x) * (r.y - q.y)
  IN IF val = 0 THEN 0 ELSE IF val > 0 THEN 1 ELSE 2

\* Line::on_segment
on_segment(p, q, r) ==
  /\ q.x <= max(p.x, r.x) /\ q.x >= min(p.x, r.x)
  /\ q.y <= max(p.y, r.y) /\ q.y >= min(p.y, r.y)

\* Line::intersects
intersects(self, other) ==
  LET o1 == orientation(self.start, self.end, other.start)
      o2 == orientation(self.start, self.end, other.end)
      o3 == orientation(other.start, other.end, self.start)
      o4 == orientation(other.start, other.end, self.end)
  IN \/ o1 # o2 /\ o3 # o4
     \/ o1 = 0 /\ on_segment(self.start, other.start, self.end)
     \/ o2 = 0 /\ on_segment(self.start, other.end, self.end)
     \/ o3 = 0 /\ on_segment(other.start, self.start, other.end)
     \/ o4 = 0 /\ on_segment(other.start, self.end, other.end)

\* ------------------------------------------------------------------------
\* geometry/angular_shape.rs
\* ------------------------------------------------------------------------
\* get_lines with the index of the next corner cut off at the last corner
\* and not wrapped around to the first one.
get_lines_NoWrap(corners) ==
  [i \in 1..Len(corners) |->
     Line(corners[i], corners[IF i = Len(corners) THEN i ELSE i + 1])]

\* AngularShape::get_lines: a line from each corner to the next one, the
\* last corner's to the first corner.
get_lines(corners) ==
  [i \in 1..Len(corners) |-> Line(corners[i], corners[(i % Len(corners)) + 1])]

\* AngularShape::is_valid: Ok(false) on fewer than three corners, on two
\* equal corners, on lines that do not connect; then line by line, the line
\* shortened at both ends (Err if it is too short for that) must meet no
\* other line.
is_valid(corners) ==
  LET n == Len(corners)
      lines == get_lines(corners)
      adjusted_line(i) ==
        LET first == shorten(lines[i], Epsilon)
        IN IF ~first.ok THEN first
           ELSE LET second == shorten(flip(first.line), Epsilon)
                IN IF ~second.ok THEN second
                   ELSE [ok |-> TRUE, line |-> flip(second.line)]
      pass(i) ==
        IF ~adjusted_line(i).ok THEN "Err"
        ELSE IF \E j \in 1..n : j # i /\ intersects(adjusted_line(i).line, lines[j])
             THEN "Ok(false)"
             ELSE "next"
      returns == { i \in 1..n : pass(i) # "next" }
  IN IF n < 3 THEN "Ok(false)"
     ELSE IF \E i, j \in 1..n : i # j /\ corners[i] = corners[j] THEN "Ok(false)"
     ELSE IF \E i \in 1..(Len(lines) - 1) : lines[i].end # lines[i + 1].start
     THEN "Ok(false)"
     ELSE IF returns = {} THEN "Ok(true)"
     ELSE pass(CHOOSE i \in returns : \A j \in returns : i <= j)

RECURSIVE sum(_)
\* Iterator::sum
sum(areas) == IF areas = <<>> THEN 0 ELSE Head(areas) + sum(Tail(areas))

\* f64::abs
abs(v) == IF v < 0 THEN 0 - v ELSE v

\* An f64 result of area(): whole ones and square units (2^-60) on top.
MinusOne == [whole |-> 0 - 1, units |-> 0]

\* AngularShape::area: the unwrap of is_valid panics on Err; -1.0 for a
\* shape that is not valid; else the absolute value of the sum, over the
\* lines, of the mean height of the line times its extent in x.
area(corners) ==
  IF is_valid(corners) = "Err"
  THEN [panic |-> TRUE, value |-> MinusOne]
  ELSE IF is_valid(corners) # "Ok(true)"
  THEN [panic |-> FALSE, value |-> MinusOne]
  ELSE
    LET lines == get_lines(corners)
        areas == [i \in 1..Len(lines) |->
                    LET height == (lines[i].start.y + lines[i].end.y) \div 2
                        dx == lines[i].end.x - lines[i].start.x
                    IN height * dx]
        result == sum(areas)
    IN [panic |-> FALSE, value |-> [whole |-> 0, units |-> abs(result)]]

\* ------------------------------------------------------------------------
\* The library called directly, as the unit tests of the crate call it: a
\* test makes one call, whose argument and result are kept.  The server
\* takes no part.
\* ------------------------------------------------------------------------
XTest == << <<"X", "-", "T">>, <<"1">> >>
HostPort == << <<"H", "o", "s", "t">>, <<"a", ":", "8">> >>

HeaderLists ==
  { <<>>,
    <<ContentTypePlain>>,
    <<ContentTypeHtml, XTest>>,
    <<XTest, ContentTypeHtml>>,
    <<XTest, XTest>>,
    <<HostPort>> }

Bodies == { <<>>, Hello, <<"h", "i">>, <<"a">> \o CRLF \o CRLF \o <<"b">> }

Responses ==
  { Response(status, body, headers) :
      status \in HttpStatus, body \in Bodies, headers \in HeaderLists }

\* response.to_string()
CallToString ==
  \E r \in Responses :
    /\ l_fn = "none"
    /\ l_fn' = "to_string"
    /\ l_arg' = r
    /\ l_res' = to_string(r)
    /\ UNCHANGED <<server, c_pc, ret, starts, thread>>

\* BufReader::lines().take_while(|line| !line.is_empty()).collect(): the
\* lines of the stream before its first empty line.
RECURSIVE http_request(_)
http_request(stream) ==
  IF stream = <<>> \/ Head(stream) = <<>>
  THEN <<>>
  ELSE <<Head(stream)>> \o http_request(Tail(stream))

\* Lines a peer can send.
GetFoo == GET_ \o <<" ", "/foo", " ", "HTTP/1.1">>
FooRoot == <<"F", "O", "O", " ", "/">>
HostLine == <<"H", "o", "s", "t", ":", " ", "example.com">>
HostPortLine == <<"H", "o", "s", "t", ":", " ", "example.com", ":", "8080">>
XTestLine == <<"X", "-", "T", "e", "s", "t", ":", " ", "1">>
NoColonLine == <<"b", "o", "d", "y">>

\* What arrives on a connection, line by line: well-formed requests, with
\* and without lines after the blank one, and malformed ones.
Streams ==
  { <<GetFoo, HostLine, XTestLine, <<>> >>,
    <<GetFoo, <<>> >>,
    <<GetRoot>>,
    <<GetFoo, HostLine, HostLine, <<>> >>,
    <<GetFoo, XTestLine, HostLine, <<>>, NoColonLine>>,
    <<GetFoo, HostPortLine, <<>> >>,
    <<GetFoo, HostLine, <<>>, XTestLine, <<>> >>,
    <<FooRoot, HostLine, <<>> >>,
    <<FooRoot, <<>> >>,
    <<>>,
    << <<>>, GetFoo, <<>> >>,
    <<OneToken, <<>> >>,
    << <<" ">>, <<>> >>,
    <<OneToken, HostLine, <<>> >>,
    <<GetFoo, NoColonLine, <<>> >>,
    <<GetFoo, HostLine, NoColonLine, <<>> >> }

\* Request::new( &http_request ) on the lines read from a connection.
CallRequestNew ==
  \E stream \in Streams :
    /\ l_fn = "none"
    /\ l_fn' = "Request::new"
    /\ l_arg' = stream
    /\ l_res' = RequestNew(http_request(stream))
    /\ UNCHANGED <<server, c_pc, ret, starts, thread>>

\* The corners shapes are made of, and the shapes: every list of up to
\* MaxCorners of them.
Corners ==
  { Point(0, 0), Point(0, 3), Point(3, 3), Point(3, 0), Point(1, 0), Point(3, 1) }

Shapes == UNION { [1..n -> Corners] : n \in 0..MaxCorners }

\* AngularShape { corners }.get_lines()
CallGetLines ==
  \E corners \in Shapes :
    /\ l_fn = "none"
    /\ l_fn' = "get_lines"
    /\ l_arg' = corners
    /\ l_res' = get_lines(corners)
    /\ UNCHANGED <<server, c_pc, ret, starts, thread>>

\* AngularShape { corners }.is_valid()
CallIsValid ==
  \E corners \in Shapes :
    /\ l_fn = "none"
    /\ l_fn' = "is_valid"
    /\ l_arg' = corners
    /\ l_res' = is_valid(corners)
    /\ UNCHANGED <<server, c_pc, ret, starts, thread>>

\* AngularShape { corners }.area()
CallArea ==
  \E corners \in Shapes :
    /\ l_fn = "none"
    /\ l_fn' = "area"
    /\ l_arg' = corners
    /\ l_res' = area(corners)
    /\ UNCHANGED <<server, c_pc, ret, starts, thread>>

LibNext ==
  \/ CallToString
  \/ CallRequestNew
  \/ CallGetLines
  \/ CallIsValid
  \/ CallArea

LibSpec == Init /\ [][LibNext]_vars

\* ------------------------------------------------------------------------
\* Properties.
\* ------------------------------------------------------------------------
Conn == 1..Len(conns)

\* What a connection that was read and answered must have been written: the
\* 404 response when no handler was run for it, else the response of the
\* handler that was run on its request.
Answer(c) ==
  IF c.invoked = "none"
  THEN NotFoundResponse
  ELSE HandlerCall(c.invoked, RequestNew(c.input[1]).request).response

\* C1: a panic of the matched handler is caught in handle_connection: the
\* step in which the handler panics leaves the thread in handle_connection
\* with the 500 response and the listening socket open, a connection whose
\* handler panicked and that was written to has received the serialized 500
\* response, and a connection answered after it on the same socket has
\* received its own handler's response.
C1_HandlerFaultIsolated ==
  /\ [][\A i \in Conn :
          (i <= Len(conns') /\ ~conns[i].fault /\ conns'[i].fault)
            => (t_pc' = "write" /\ sock' = "open" /\ cur' = i
                /\ response' = InternalErrorResponse)]_vars
  /\ [](\A i \in Conn :
          (conns[i].fault /\ conns[i].st = "responded")
            => conns[i].bytes = to_string(InternalErrorResponse))
  /\ [](\A i \in Conn : \A j \in Conn :
          (i < j /\ conns[i].fault /\ conns[j].st = "responded" /\ ~conns[j].fault)
            => conns[j].bytes = to_string(Answer(conns[j])))

\* C1 witness: a handler panicked, its client has the 500 response, and a
\* later connection was served by the hello handler.
C1_Witness ==
  \E i \in Conn : \E j \in Conn :
    /\ i < j
    /\ conns[i].fault /\ conns[i].st = "responded"
    /\ conns[i].bytes = to_string(InternalErrorResponse)
    /\ conns[j].st = "responded" /\ conns[j].invoked = "hello"
    /\ conns[j].bytes = to_string(Response("Ok", Hello, <<>>))

\* The inputs C2 calls malformed.
Malformed(lines) ==
  \/ Len(lines) = 0
  \/ Len(split_whitespace(lines[1])) < 2
  \/ \E k \in 2..Len(lines) : ~contains(lines[k], ":")

\* C2: reading a malformed input drops the connection with nothing written
\* to it and the thread goes back to accepting on the open socket.
C2_MalformedInputKeepsServing ==
  [][\A i \in Conn :
       (t_pc = "read" /\ cur = i /\ i <= Len(conns') /\ conns[i].input = <<>>
          /\ conns'[i].input # <<>> /\ Malformed(conns'[i].input[1]))
         => (conns'[i].st = "dropped" /\ conns'[i].bytes = <<>>
             /\ t_pc' = "accept" /\ sock' = "open")]_vars

\* C3: a failed write of the response drops the connection only: the step
\* that leaves the write of handle_connection never ends the thread nor
\* closes the listening socket.
C3_WriteFailureKeepsServing ==
  [][t_pc = "write" => (t_pc' \in {"write", "accept"} /\ sock' = "open")]_vars


\* The states of t_pc in which the thread is alive, and those in which it
\* is inside handle_connection.
Live == {"spawned", "accept", "check", "read", "dispatch", "write"}
Handling == {"read", "dispatch", "write"}
Stopping == {"stop_connect", "stop_join"}

C5_RestartServes ==
  /\ [][(t_pc # "spawned" /\ t_pc' = "spawned")
          => (is_running' /\ ~should_stop' /\ sock' = "open" /\ t_routes' = routes')]_vars
  /\ [](t_pc = "exited" => c_pc \in Stopping)
  /\ [](t_pc \in Live => t_routes = routes)

\* C5 witness: after start(), stop() and a second start() a request has been
\* served by the hello handler.
C5_Witness ==
  /\ starts = 2 /\ is_running /\ ~should_stop
  /\ \E i \in Conn : conns[i].st = "responded" /\ conns[i].invoked = "hello"

\* C6: between calls, the server is running iff it has both its bound
\* socket (in its listener field or moved to its thread) and its thread
\* handle.
C6_RunningIffSocketAndTask ==
  c_pc = "idle" =>
    (is_running <=> ((listener = "Some" \/ sock = "open") /\ listener_handle = "Some"))

\* C7: between calls, a running server has its accept thread alive.
C7_OneLiveTaskWhileRunning ==
  (c_pc = "idle" /\ is_running) => t_pc \in Live

\* C8: a server that is not running has no thread, no connection in
\* handling and no open listening socket; is_running becomes false, and
\* stop() returns, only from a state in which the thread has ended.
C8_StoppedOnlyAfterJoin ==
  /\ [](~is_running => (t_pc = "none" /\ sock = "closed" /\ cur = 0
                        /\ \A i \in Conn : conns[i].st \notin {"queued", "accepted"}))
  /\ [][(is_running /\ ~is_running') => t_pc \in {"exited", "dead"}]_vars
  /\ [][(c_pc \in Stopping /\ c_pc' = "idle")
          => (t_pc \in {"exited", "dead"} /\ ~is_running')]_vars

\* C8 witness: stop() has returned, and a connection that was still being
\* handled after stop() had set the flag was answered first.
C8_Witness ==
  /\ ~is_running /\ ret = "stop"
  /\ \E i \in Conn : conns[i].stop_late /\ conns[i].st = "responded"

\* C9: a connection that accept returned with the stop flag set is never
\* read, dispatched or written to, and the thread's next step leaves the
\* loop; a thread inside handle_connection does not leave the loop.
C9_FlagCheckedBeforeHandling ==
  /\ [](\A i \in Conn :
          conns[i].stop_seen =>
            (conns[i].st \in {"accepted", "dropped"} /\ conns[i].input = <<>>
             /\ conns[i].invoked = "none" /\ conns[i].bytes = <<>>))
  /\ [][(t_pc = "check" /\ should_stop /\ t_pc' # "check") => t_pc' = "exited"]_vars
  /\ [][(t_pc \in Handling) => (t_pc' \in (Handling \cup {"accept", "dead"}))]_vars

\* C9 witness: a connection handled while the flag was being set has its
\* response, and a client's connection accepted after it was dropped unread
\* when the loop ended.
C9_Witness ==
  /\ t_pc = "exited"
  /\ \E i \in Conn : conns[i].stop_late /\ conns[i].st = "responded"
  /\ \E j \in Conn : /\ conns[j].kind = "client" /\ conns[j].stop_seen
                     /\ conns[j].st = "dropped" /\ conns[j].input = <<>>

Keys(rs) == {<<rs[i].method, rs[i].path>> : i \in 1..Len(rs)}

\* A path with one of the reserved characters in it.
Reserved(path) == \E w \in unsupported_wildcards : contains(path, w)

\* C11: on a running server add_route returns false for every route and
\* leaves the registry as it is, and every step that changes the registry
\* is taken by a stopped server and leaves it stopped.
C11_RunningRejectsEveryRoute ==
  /\ [][\A h \in Routes :
          (is_running /\ add_route(h))
            => (ret' = "add_route:false:running" /\ routes' = routes)]_vars
  /\ [][(routes' # routes) => (~is_running /\ ~is_running')]_vars

\* C11 witness: add_route has just returned false on a running server whose
\* thread is accepting, though one of the routes offered is valid, has a
\* key that is not registered, and the registry has room for it.
C11_Witness ==
  /\ is_running
  /\ t_pc = "accept"
  /\ ret = "add_route:false:running"
  /\ Len(routes) < MaxRoutes
  /\ \E h \in Routes :
       /\ <<h.method, h.path>> \notin Keys(routes)
       /\ h.path # <<>> /\ h.method # "Unknown"
       /\ ~Reserved(h.path) /\ ~Reserved(h.path_pattern)

\* C12: while the thread lives its route list is the registry, no step
\* between two live states of the thread changes its list, and no step of
\* a running server changes the registry.
C12_SnapshotEqualsRegistry ==
  /\ []((t_pc \in Live) => (t_routes = routes))
  /\ [][((t_pc \in Live) /\ (t_pc' \in Live)) => (t_routes' = t_routes)]_vars
  /\ [][is_running => (routes' = routes)]_vars

\* C12 witness: in the second running period, with a registration refused
\* during it, the thread dispatches on a list of two routes that is the
\* registry.
C12_Witness ==
  /\ starts = 2
  /\ is_running
  /\ t_pc = "dispatch"
  /\ ret = "add_route:false:running"
  /\ Len(t_routes) = 2
  /\ t_routes = routes

\* The key of a route.
Key(h) == <<h.method, h.path>>

\* A route that passes the validation of add_route: its path is not empty,
\* its method is not Unknown and its path pattern (the path, in a route
\* built by RouteHandler::new) has no reserved character.
ValidRoute(h) == h.path # <<>> /\ h.method # "Unknown" /\ ~Reserved(h.path_pattern)

C14_InvalidRouteRejected ==
  [][\A h \in Routes :
       ((h.path = <<>> \/ h.method = "Unknown" \/ Reserved(h.path)) /\ add_route(h))
         => (ret' \in AddRouteFalse /\ routes' = routes)]_vars

\* C15: on a stopped server add_route of a route with a key that is not
\* registered, a path that is not empty and has no reserved character and a
\* method other than Unknown returns true and appends the route to the
\* registry, and start and stop leave the registry as it is.
C15_ValidRouteAppended ==
  /\ [][\A h \in Routes :
          (/\ ~is_running /\ Key(h) \notin Keys(routes)
           /\ h.path # <<>> /\ ~Reserved(h.path) /\ h.method # "Unknown"
           /\ add_route(h))
            => (ret' = "add_route:true" /\ routes' = Append(routes, h))]_vars
  /\ [][(start \/ stop) => (routes' = routes)]_vars

\* C16: the registry has no two routes with the same key, no route with
\* the method Unknown, none with an empty path and none with a reserved
\* character in its path.
C16_RegistryWellFormed ==
  /\ \A i \in 1..Len(routes) : \A j \in 1..Len(routes) :
       (Key(routes[i]) = Key(routes[j])) => (i = j)
  /\ \A i \in 1..Len(routes) :
       /\ routes[i].method # "Unknown"
       /\ routes[i].path # <<>>
       /\ ~Reserved(routes[i].path)

\* ------------------------------------------------------------------------
\* Lookup and dispatch.
\* ------------------------------------------------------------------------
\* Paths looked up: the paths routes are registered with, and each of them
\* with a trailing slash added and with its letters in upper case.
ProbePaths ==
  LET upper(c) == IF c = "p" THEN "P" ELSE IF c = "x" THEN "X" ELSE IF c = "i" THEN "I" ELSE c
      known == {Root, PathP, PathX, PathId}
  IN known \cup {p \o <<"/">> : p \in known}
           \cup {[k \in 1..Len(p) |-> upper(p[k])] : p \in known}

\* C17: in every registry the lookup of a registered key finds the first
\* route with that key, also when the list holds the key again further on,
\* the lookup of a method and a path that are no registered key (another
\* method, a trailing slash, another letter case) finds none, and the
\* handler the thread has called for a request is the handler of the first
\* route of its list with the request's method and path, none being called
\* when the list has no such route.
C17_LookupIsExact ==
  /\ \A i \in 1..Len(routes) :
       LET r == FindRoute(routes, routes[i].method, routes[i].path)
       IN /\ r \in 1..i
          /\ Key(routes[r]) = Key(routes[i])
          /\ \A j \in 1..(r - 1) : Key(routes[j]) # Key(routes[i])
          /\ FindRoute(routes \o routes, routes[i].method, routes[i].path) = r
  /\ \A method \in HttpMethod : \A path \in ProbePaths :
       (<<method, path>> \notin Keys(routes)) => (FindRoute(routes, method, path) = 0)
  /\ (t_pc = "write") =>
       IF <<request.method, request.path>> \in Keys(t_routes)
       THEN \E i \in 1..Len(t_routes) :
              /\ Key(t_routes[i]) = <<request.method, request.path>>
              /\ \A j \in 1..(i - 1) : Key(t_routes[j]) # Key(t_routes[i])
              /\ conns[cur].invoked = t_routes[i].handler
       ELSE conns[cur].invoked = "none"

\* C17 witness: the thread has called the handler of the second of its two
\* routes for the request GET /p, and its list has no route for GET /p/,
\* GET /P or POST /p.
C17_Witness ==
  /\ t_pc = "write"
  /\ Len(t_routes) = 2
  /\ request.path = PathP
  /\ FindRoute(t_routes, request.method, request.path) = 2
  /\ conns[cur].invoked = t_routes[2].handler
  /\ FindRoute(t_routes, "GET", PathP \o <<"/">>) = 0
  /\ FindRoute(t_routes, "GET", <<"/", "P">>) = 0
  /\ FindRoute(t_routes, "POST", PathP) = 0

\* The request a connection's input was parsed to.
Parsed(c) == RequestNew(c.input[1]).request

\* The header both fixed pages are sent with, and the bytes before the
\* pages.
HtmlHeader ==
  << <<"C", "o", "n", "t", "e", "n", "t", "-", "T", "y", "p", "e">>,
     <<"t", "e", "x", "t", "/", "h", "t", "m", "l", ";", " ",
       "c", "h", "a", "r", "s", "e", "t", "=", "u", "t", "f", "-", "8">> >>

HtmlHeaderBytes ==
  <<"C", "o", "n", "t", "e", "n", "t", "-", "T", "y", "p", "e", ":", " ",
    "t", "e", "x", "t", "/", "h", "t", "m", "l", ";", " ",
    "c", "h", "a", "r", "s", "e", "t", "=", "u", "t", "f", "-", "8">>

Bytes404 ==
  <<"H", "T", "T", "P", "/", "1", ".", "1", " ",
    "4", "0", "4", " ", "N", "o", "t", " ", "F", "o", "u", "n", "d", "\r", "\n">>
    \o HtmlHeaderBytes \o <<"\r", "\n", "\r", "\n">> \o Page404

Bytes500 ==
  <<"H", "T", "T", "P", "/", "1", ".", "1", " ",
    "5", "0", "0", " ", "I", "n", "t", "e", "r", "n", "a", "l", " ",
    "S", "e", "r", "v", "e", "r", " ", "E", "r", "r", "o", "r", "\r", "\n">>
    \o HtmlHeaderBytes \o <<"\r", "\n", "\r", "\n">> \o Page500

C19_HandlerResponseVerbatim ==
  /\ [][(t_pc = "dispatch" /\ t_pc' # "dispatch")
           => \A k \in 1..Len(t_routes) :
                (/\ Key(t_routes[k]) = <<request.method, request.path>>
                 /\ \A j \in 1..(k - 1) : Key(t_routes[j]) # Key(t_routes[k])
                 /\ ~HandlerCall(t_routes[k].handler, request).panic)
                  => (/\ t_pc' = "write"
                      /\ conns[cur].invoked = "none"
                      /\ conns'[cur].invoked = t_routes[k].handler
                      /\ \A i \in Conn : (i # cur) => (conns'[i] = conns[i])
                      /\ request = Parsed(conns[cur])
                      /\ response' = HandlerCall(t_routes[k].handler, request).response)]_vars
  /\ [][\A i \in Conn :
          (i <= Len(conns') /\ conns[i].invoked # "none")
            => (conns'[i].invoked = conns[i].invoked)]_vars
  /\ [](\A i \in Conn :
          (conns[i].st = "responded" /\ conns[i].invoked # "none" /\ ~conns[i].fault)
            => (conns[i].bytes
                  = to_string(HandlerCall(conns[i].invoked, Parsed(conns[i])).response)))

\* C19 witness: a client that asked for GET / was answered by the echo
\* handler, registered second of two routes, with the serialization of the
\* response echo returns for that request: its body is the path "/".
C19_Witness ==
  /\ t_pc \in Live
  /\ Len(t_routes) = 2
  /\ t_routes[2].handler = "echo"
  /\ \E i \in Conn :
       /\ conns[i].st = "responded" /\ conns[i].invoked = "echo"
       /\ Parsed(conns[i]).path = Root
       /\ conns[i].bytes = to_string(Response("Ok", Root, <<ContentTypePlain>>))

\* C20: the step in which a handler panics makes the response 500 Internal
\* Server Error with the one header Content-Type: text/html; charset=utf-8
\* and the 500 page, whatever the payload, and logs the payload; every
\* connection answered after its handler panicked has received the same
\* bytes, those of that response.
C20_FaultResponseIgnoresPayload ==
  /\ [][\A i \in Conn :
          (i <= Len(conns') /\ ~conns[i].fault /\ conns'[i].fault)
            => (/\ response' = [status |-> "InternalServerError",
                                headers |-> <<HtmlHeader>>, body |-> Page500]
                /\ conns'[i].logged = PanicLog(PanicPayload(conns'[i].invoked))
                /\ conns'[i].bytes = <<>>)]_vars
  /\ [](\A i \in Conn :
          (conns[i].fault /\ conns[i].st = "responded") => (conns[i].bytes = Bytes500))
  /\ [](\A i \in Conn : \A j \in Conn :
          (/\ conns[i].fault /\ conns[i].st = "responded"
           /\ conns[j].fault /\ conns[j].st = "responded")
            => (conns[i].bytes = conns[j].bytes))

\* C20 witness: two clients were answered after handlers panicked with
\* payloads of different types, the logs differ and the bytes are the same.
C20_Witness ==
  \E i \in Conn : \E j \in Conn :
    /\ conns[i].fault /\ conns[i].st = "responded"
    /\ conns[j].fault /\ conns[j].st = "responded"
    /\ PanicPayload(conns[i].invoked).type # PanicPayload(conns[j].invoked).type
    /\ PanicPayload(conns[i].invoked).text # PanicPayload(conns[j].invoked).text
    /\ conns[i].logged # conns[j].logged
    /\ conns[i].bytes = conns[j].bytes

\* ------------------------------------------------------------------------
\* The serializer.
\* ------------------------------------------------------------------------
RECURSIVE HeaderBlock(_)
\* Each header as "<name>: <value>\r\n", in the list's order.
HeaderBlock(hs) ==
  IF hs = <<>> THEN <<>>
  ELSE HeaderLine(Head(hs)) \o CRLF \o HeaderBlock(Tail(hs))

\* The wire format of the specification: the status line and its CRLF, the
\* header block, one blank line, the body.
Serialize(r) ==
  <<"H", "T", "T", "P", "/", "1", ".", "1", " ">> \o StatusText(r.status) \o CRLF
    \o HeaderBlock(r.headers) \o CRLF \o r.body

\* C21: for every Response, one with an empty header list included,
\* to_string produces exactly "HTTP/1.1 <status-text>\r\n", then
\* "<name>: <value>\r\n" for each header in the response's own order, then one
\* blank line "\r\n", then the body, and nothing else; Response{Ok, [],
\* "hello"} serializes to exactly "HTTP/1.1 200 OK\r\n\r\nhello".
C21_SerializeExact ==
  (l_fn = "to_string") =>
    /\ l_res = Serialize(l_arg)
    /\ (l_arg = Response("Ok", Hello, <<>>)) =>
         l_res = <<"H", "T", "T", "P", "/", "1", ".", "1", " ", "2", "0", "0",
                   " ", "O", "K", "\r", "\n", "\r", "\n",
                   "h", "e", "l", "l", "o">>

RECURSIVE ReadLine(_, _)
\* The text up to the first CRLF of s, and what follows that CRLF.
ReadLine(s, acc) ==
  IF Len(s) < 2
  THEN [line |-> acc \o s, rest |-> <<>>]
  ELSE IF s[1] = "\r" /\ s[2] = "\n"
       THEN [line |-> acc, rest |-> SubSeq(s, 3, Len(s))]
       ELSE ReadLine(Tail(s), Append(acc, Head(s)))

RECURSIVE HeaderLines(_, _)
\* The lines of s up to its first blank line, and what follows that line.
HeaderLines(s, acc) ==
  LET l == ReadLine(s, <<>>)
  IN IF l.line = <<>>
     THEN [lines |-> acc, body |-> l.rest]
     ELSE HeaderLines(l.rest, Append(acc, l.line))

RECURSIVE SplitHeader(_, _)
\* A header line "<name>: <value>" taken apart at its first ": ".
SplitHeader(s, acc) ==
  IF Len(s) < 2
  THEN <<acc \o s, <<>> >>
  ELSE IF s[1] = ":" /\ s[2] = " "
       THEN <<acc, SubSeq(s, 3, Len(s))>>
       ELSE SplitHeader(Tail(s), Append(acc, Head(s)))

\* The status a status line names.
StatusOf(line) ==
  LET named == { st \in HttpStatus :
                   line = <<"H", "T", "T", "P", "/", "1", ".", "1", " ">> \o StatusText(st) }
  IN IF named = {} THEN "none" ELSE CHOOSE st \in named : TRUE

\* Serialized bytes split at the status line, the header lines and the first
\* blank line.
Reparse(bytes) ==
  LET first == ReadLine(bytes, <<>>)
      rest == HeaderLines(first.rest, <<>>)
  IN Response(StatusOf(first.line), rest.body,
              [i \in 1..Len(rest.lines) |-> SplitHeader(rest.lines[i], <<>>)])

\* C22: round trip of the serializer: for every Response (any status, any
\* header list without CR or LF in names and values, any body), splitting the
\* bytes of to_string at the status line, the header lines and the first blank
\* line recovers the same status, the same headers in the same order and the
\* same body.
C22_SerializeRoundTrip ==
  (l_fn = "to_string") => Reparse(l_res) = l_arg

\* ------------------------------------------------------------------------
\* The request parser.
\* ------------------------------------------------------------------------
\* The lines of a stream that make up the request: those before the blank
\* separator.
RequestLines(stream) ==
  LET blank == { i \in 1..Len(stream) : stream[i] = <<>> }
  IN IF blank = {} THEN stream
     ELSE SubSeq(stream, 1, (CHOOSE i \in blank : \A j \in blank : i <= j) - 1)

\* The header lines of a stream: the request's lines after the request line.
HeaderLinesOf(stream) == Tail(RequestLines(stream))

FewTokens(stream) ==
  \/ RequestLines(stream) = <<>>
  \/ Len(split_whitespace(RequestLines(stream)[1])) < 2

HeaderWithoutColon(stream) ==
  /\ RequestLines(stream) # <<>>
  /\ \E k \in 1..Len(HeaderLinesOf(stream)) : ~contains(HeaderLinesOf(stream)[k], ":")

WellFormed(stream) == ~FewTokens(stream) /\ ~HeaderWithoutColon(stream)

\* How a call of the parser ended: Request::new returns a Request or unwinds.
Outcome(res) == IF res.panic THEN "fault" ELSE "Request"

\* C23: the parser reports malformed input as an error outcome and does not
\* fault: a request line of fewer than two whitespace-separated tokens (a
\* missing request line included) fails with MalformedRequestLine, a header
\* line without ':' fails with MalformedHeader.
C23_MalformedIsAnError ==
  (l_fn = "Request::new") =>
    /\ FewTokens(l_arg) => Outcome(l_res) = "MalformedRequestLine"
    /\ (~FewTokens(l_arg) /\ HeaderWithoutColon(l_arg)) =>
         Outcome(l_res) = "MalformedHeader"

\* The method a token names, any token but the four names being Unknown.
MethodOf(token) == IF from_str(token).ok THEN from_str(token).method ELSE "Unknown"

\* C24: a request whose method token is none of GET, POST, PUT and DELETE
\* does not fail the parse: it yields a Request of method Unknown, its path
\* and headers parsed as usual.
C24_UnknownMethodParses ==
  (l_fn = "Request::new" /\ WellFormed(l_arg)
     /\ ~from_str(split_whitespace(l_arg[1])[1]).ok) =>
    /\ Outcome(l_res) = "Request"
    /\ l_res.request.method = "Unknown"
    /\ l_res.request.path = split_whitespace(l_arg[1])[2]
    /\ Len(l_res.request.headers) = Len(HeaderLinesOf(l_arg))

RECURSIVE SplitOnce(_, _)
\* A header line taken apart at its first ':': the text before it and the
\* whole remainder after it.
SplitOnce(s, acc) ==
  IF s = <<>> THEN <<acc, <<>> >>
  ELSE IF Head(s) = ":" THEN <<acc, Tail(s)>>
  ELSE SplitOnce(Tail(s), Append(acc, Head(s)))

\* C25: for every well-formed input (a request line of two tokens or more,
\* header lines each holding ':', a blank line) the parser yields a Request
\* whose method and path are the first two tokens of the request line, whose
\* headers are one pair a header line, in wire order and duplicates kept,
\* named by the text before the line's ':', and whose body is empty; no line
\* after the blank separator is read.
C25_WellFormedParses ==
  (l_fn = "Request::new" /\ WellFormed(l_arg)) =>
    /\ Outcome(l_res) = "Request"
    /\ l_res.request.method = MethodOf(split_whitespace(l_arg[1])[1])
    /\ l_res.request.path = split_whitespace(l_arg[1])[2]
    /\ Len(l_res.request.headers) = Len(HeaderLinesOf(l_arg))
    /\ \A k \in 1..Len(HeaderLinesOf(l_arg)) :
         l_res.request.headers[k][1] = SplitOnce(HeaderLinesOf(l_arg)[k], <<>>)[1]
    /\ l_res.request.body = <<>>
    /\ l_res = RequestNew(RequestLines(l_arg))

\* C26: each header line is split once, on its first ':' only: the name is
\* the text before it and the value the whole remainder of the line, so a
\* value that itself holds ':' (as in "Host: example.com:8080") is kept
\* whole.
C26_HeaderSplitOnce ==
  (l_fn = "Request::new" /\ Outcome(l_res) = "Request") =>
    \A k \in 1..Len(HeaderLinesOf(l_arg)) :
      /\ k <= Len(l_res.request.headers)
      /\ l_res.request.headers[k] = SplitOnce(HeaderLinesOf(l_arg)[k], <<>>)

\* ------------------------------------------------------------------------
\* Calls that do nothing, and the bind that fails.
\* ------------------------------------------------------------------------
\* C27: start() called while running and stop() called while stopped are
\* no-ops: the call returns without an error, the caller is not held, and
\* running flag, stop flag, bound socket, task handle, recorded address and
\* registry are what they were (the thread too).
C27_NoopCalls ==
  [][/\ (c_pc = "idle" /\ is_running /\ start) =>
          /\ ret' = "start:noop" /\ c_pc' = "idle"
          /\ UNCHANGED <<server, thread, starts>>
     /\ (c_pc = "idle" /\ ~is_running /\ stop) =>
          /\ ret' = "stop:noop" /\ c_pc' = "idle"
          /\ UNCHANGED <<server, thread, starts>>]_vars

\* start() returned at once on a server whose thread is handling a request.
C27_Witness ==
  /\ ret = "start:noop" /\ c_pc = "idle" /\ is_running
  /\ routes # <<>> /\ t_pc = "dispatch"

\* C28: a bind that fails in start() is a hard failure of the caller, not
\* retried: no thread is spawned, nothing is bound, and the server is not
\* running (is_running stays false, should_stop and the registry are what they
\* were); the caller that took the failure makes no further call.
C28_BindFailureIsFatal ==
  [][/\ (c_pc = "idle" /\ start /\ ret' = "start:panic") =>
          /\ c_pc' = "panicked" /\ ~is_running'
          /\ UNCHANGED <<server, thread, starts>>
     /\ (c_pc = "panicked") =>
          /\ c_pc' = "panicked"
          /\ UNCHANGED <<server, thread, starts, ret>>]_vars

\* The bind failed when a server with a route, stopped after a first run,
\* was started again.
C28_Witness ==
  /\ ret = "start:panic" /\ c_pc = "panicked" /\ ~is_running
  /\ starts = 1 /\ routes # <<>> /\ listener = "None"

\* ------------------------------------------------------------------------
\* Shapes.
\* ------------------------------------------------------------------------
\* C29: get_lines on a shape of n corners returns exactly n lines, the i-th
\* from corner i to corner (i+1) mod n, the last one closing the shape back
\* to the first corner; no line for n = 0, and for n = 1 one line from the
\* corner to itself.
C29_LinesCloseTheShape ==
  (l_fn = "get_lines") =>
    LET n == Len(l_arg)
    IN /\ Len(l_res) = n
       /\ \A i \in 1..n :
            /\ l_res[i].start = l_arg[i]
            /\ l_res[i].end = (IF i = n THEN l_arg[1] ELSE l_arg[i + 1])
       /\ (n = 0) => l_res = <<>>
       /\ (n = 1) => l_res = << [start |-> l_arg[1], end |-> l_arg[1]] >>

\* The four lines of a square, the fourth back to the first corner.
C29_Witness ==
  /\ l_fn = "get_lines"
  /\ l_arg = <<Point(0, 0), Point(0, 3), Point(3, 3), Point(3, 0)>>
  /\ Len(l_res) = 4
  /\ l_res[4] = [start |-> Point(3, 0), end |-> Point(0, 0)]

\* Two lines cross: each has its two ends strictly on the two sides of the
\* other.
Crosses(a, b) ==
  /\ {orientation(a.start, a.end, b.start), orientation(a.start, a.end, b.end)} = {1, 2}
  /\ {orientation(b.start, b.end, a.start), orientation(b.start, b.end, a.end)} = {1, 2}

\* Lines i and j of a shape of n corners share no corner.
NonAdjacent(i, j, n) == i # j /\ (i % n) + 1 # j /\ (j % n) + 1 # i

EqualCorners(corners) ==
  \E i, j \in 1..Len(corners) : i # j /\ corners[i] = corners[j]

CrossingEdges(corners) ==
  \E i, j \in 1..Len(corners) :
    /\ NonAdjacent(i, j, Len(corners))
    /\ Crosses(get_lines(corners)[i], get_lines(corners)[j])

\* Three corners not on one line.
SimpleTriangle(corners) ==
  Len(corners) = 3 /\ orientation(corners[1], corners[2], corners[3]) # 0

\* Four distinct corners, the sides by turns parallel to one axis and the
\* other.
Rectangle(corners) ==
  /\ Len(corners) = 4 /\ ~EqualCorners(corners)
  /\ \/ /\ corners[1].x = corners[2].x /\ corners[2].y = corners[3].y
        /\ corners[3].x = corners[4].x /\ corners[4].y = corners[1].y
     \/ /\ corners[1].y = corners[2].y /\ corners[2].x = corners[3].x
        /\ corners[3].y = corners[4].y /\ corners[4].x = corners[1].x

\* C30: is_valid returns Ok(false) for every shape of fewer than 3 corners
\* (the empty one included), for every shape with two equal corners at
\* different positions of the list and for every shape in which an edge
\* crosses a non-adjacent edge; it returns Ok(true) for simple triangles and
\* rectangles.
C30_ValidityOfShapes ==
  (l_fn = "is_valid") =>
    /\ (Len(l_arg) < 3) => l_res = "Ok(false)"
    /\ EqualCorners(l_arg) => l_res = "Ok(false)"
    /\ CrossingEdges(l_arg) => l_res = "Ok(false)"
    /\ (SimpleTriangle(l_arg) \/ Rectangle(l_arg)) => l_res = "Ok(true)"

\* The corners listed in the other direction.
Reversed(corners) == [i \in 1..Len(corners) |-> corners[Len(corners) + 1 - i]]

RECURSIVE Trapezoids(_, _)
\* The trapezoid sum over the lines of a shape, from line i on: for each
\* line the mean of the heights of its two ends times its extent in x.
Trapezoids(corners, i) ==
  IF i > Len(corners) THEN 0
  ELSE LET a == corners[i]
           b == corners[(i % Len(corners)) + 1]
       IN ((a.y + b.y) * (b.x - a.x)) \div 2 + Trapezoids(corners, i + 1)

\* C31: area() is total on shapes: for every corner list it returns -1.0
\* when the shape is not valid and else the absolute value, never negative,
\* of the trapezoid sum over the shape's lines, the same in whichever
\* direction the corners are listed; it never fails, shapes with an edge
\* shorter than the 0.000001 of the validity check included.
C31_AreaIsTotal ==
  (l_fn = "area") =>
    /\ ~l_res.panic
    /\ (is_valid(l_arg) # "Ok(true)") => l_res.value = MinusOne
    /\ (is_valid(l_arg) = "Ok(true)") =>
         /\ l_res.value.whole = 0
         /\ l_res.value.units >= 0
         /\ l_res.value.units = abs(Trapezoids(l_arg, 1))
         /\ l_res.value = area(Reversed(l_arg)).value

\* C32: header splitting takes the first two ':'-delimited tokens of a
\* header line only: the name is the text before the first ':', the value
\* the text between the first ':' and the second one (or the end of the
\* line), leading whitespace kept, and all from a second ':' on is dropped:
\* "Host: example.com:8080" yields ("Host", " example.com").
C32_HeaderTakesTwoTokens ==
  (l_fn = "Request::new" /\ Outcome(l_res) = "Request") =>
    /\ Len(l_res.request.headers) = Len(HeaderLinesOf(l_arg))
    /\ \A k \in 1..Len(HeaderLinesOf(l_arg)) :
         LET first == SplitOnce(HeaderLinesOf(l_arg)[k], <<>>)
         IN l_res.request.headers[k] = <<first[1], SplitOnce(first[2], <<>>)[1]>>

\* "Host: example.com:8080" was parsed.
C32_Witness ==
  /\ l_fn = "Request::new"
  /\ l_arg = <<GetFoo, HostPortLine, <<>> >>
  /\ Outcome(l_res) = "Request"
  /\ l_res.request.headers = << <<<<"H", "o", "s", "t">>, <<" ", "example.com">> >> >>

\* ------------------------------------------------------------------------
\* stop() and its own connection.
\* ------------------------------------------------------------------------
\* C33: stop() sets the stop flag before it opens its connection to the
\* server's own address, so in every interleaving the accept loop finds the
\* flag set when it accepts that connection: the connection is never read,
\* parsed or dispatched, no handler runs for it and nothing is written to it.
C33_SelfConnectionNeverHandled ==
  /\ [][(c_pc = "stop_connect" /\ c_pc' # "stop_connect") => should_stop]_vars
  /\ [][\A i \in Conn :
          (i <= Len(conns') /\ conns[i].kind = "self"
             /\ conns[i].st = "queued" /\ conns'[i].st = "accepted")
            => (should_stop /\ conns'[i].stop_seen)]_vars
  /\ [](\A i \in Conn :
          conns[i].kind = "self" =>
            /\ conns[i].st \in {"queued", "accepted", "dropped"}
            /\ conns[i].st = "accepted" => conns[i].stop_seen
            /\ conns[i].input = <<>> /\ conns[i].invoked = "none"
            /\ ~conns[i].fault /\ conns[i].bytes = <<>>)
  /\ [](t_pc \in Handling => (cur \in Conn /\ conns[cur].kind = "client"))

\* The thread accepted the connection of stop() after it had answered a
\* client, and left the loop without reading it.
C33_Witness ==
  /\ t_pc = "exited"
  /\ \E i \in Conn : /\ conns[i].kind = "self" /\ conns[i].stop_seen
                     /\ conns[i].st = "dropped" /\ conns[i].input = <<>>
  /\ \E j \in Conn : conns[j].kind = "client" /\ conns[j].st = "responded"

\* The thread has ended: its closure returned or it panicked.
Ended == {"exited", "dead"}

====
